---- MODULE Spec2Model ----
(***************************************************************************)
(* A model of the GCS-backed actions cache: saveCache / restoreCache and   *)
(* the key resolution findCacheEntry (src/src/tar.ts).                     *)
(*                                                                         *)
(* Strings are TLA+ strings: Len, \o and SubSeq act on them as JavaScript's *)
(* length, + and substring do.  One save or restore call runs at a time;   *)
(* every await of the code is one step of the model, and every I/O call    *)
(* (listing, mkdirP, download, exec, writeFile, rmRF) may succeed or fail. *)
(***************************************************************************)
EXTENDS Integers, Sequences, FiniteSets, TLC

(***************************************************************************)
(* Bounds of the model.                                                    *)
(***************************************************************************)
\* objects the bucket holds at most
MaxObjects == 2
\* the latest creation time the bucket's clock hands out
MaxTime == 2
\* objects of a bucket whose listing key resolution is checked on
MaxFiles == 3

(***************************************************************************)
(* Program constants.                                                      *)
(***************************************************************************)
\* checkKey: key.length > 512
KeyMaxLength == 512
\* restoreCache: keys.length > 10
KeysMaxCount == 10

ContentTypePrefix == "application/x-actions-cache-gcs-"

(***************************************************************************)
(* Strings.                                                                *)
(***************************************************************************)
\* String.prototype.startsWith
StartsWith(s, p) == Len(p) <= Len(s) /\ SubSeq(s, 1, Len(p)) = p

\* String.prototype.substring(n): the characters from index n (0-based) on
Substring(s, n) == SubSeq(s, n + 1, Len(s))

Twice(s) == s \o s

\* a key of exactly KeyMaxLength characters, and one a character longer
KeyAtLimit == Twice(Twice(Twice(Twice(Twice(Twice(Twice(Twice(Twice("x")))))))))
KeyOverLimit == KeyAtLimit \o "x"

\* the keys callers pass
Keys == {"a", "b", KeyAtLimit, KeyOverLimit}

\* context.repo.repo of the calling workflow
Repos == {"r", "rs"}

(***************************************************************************)
(* The bucket: a set of objects, each with the metadata the code reads.    *)
(* An optional value is a sequence: <<>> when absent, <<v>> when present.  *)
(***************************************************************************)
\* File: name, metadata.timeCreated (optional), metadata.contentType ("" when
\* the object has none: the code tests it with !method)
File(name, timeCreated, contentType) ==
    [name |-> name, timeCreated |-> timeCreated, contentType |-> contentType]

\* the content types found on objects: none, the two saveCache writes, another
\* application's, and the cache's prefix with a method restoreCache does not know
ContentTypes ==
    {"", ContentTypePrefix \o "gzip", ContentTypePrefix \o "zstd",
     "text/plain", ContentTypePrefix \o "br"}

\* the sets of at most n objects of objs with pairwise different names
RECURSIVE Buckets(_, _)
Buckets(objs, n) ==
    IF n = 0 THEN {{}}
    ELSE LET smaller == Buckets(objs, n - 1)
         IN  smaller \cup
             UNION {{b \cup {f} : f \in {g \in objs : \A h \in b : h.name # g.name}} :
                    b \in smaller}

\* what the bucket may hold when a workflow run starts: an object of any
\* content type under the key a of repository r, and well-formed entries
\* under a longer key and under another repository
InitialObjects ==
    {File("r/a", <<1>>, c) : c \in ContentTypes}
    \cup {File("r/ab", <<1>>, ContentTypePrefix \o "gzip"),
          File("rs/a", <<1>>, ContentTypePrefix \o "zstd")}

\* the buckets key resolution is checked on: creation times absent, equal and
\* different, names that extend one another
ListedObjects ==
    {File(n, t, ContentTypePrefix \o "gzip") :
        n \in {"r/a", "r/ab", "r/abc", "r/ac"},
        t \in {<<>>} \cup {<<i>> : i \in 1..MaxTime}}

\* bucket.getFiles({ prefix }): the objects whose name starts with prefix
Matching(bucket, prefix) == {f \in bucket : StartsWith(f.name, prefix)}

\* the orders a listing of the set S may come in
Orderings(S) ==
    {s \in [1..Cardinality(S) -> S] :
        \A i, j \in 1..Cardinality(S) : i # j => s[i] # s[j]}

\* new Date(metadata.timeCreated || 0), as a number
DateOf(timeCreated) == IF timeCreated = <<>> THEN 0 ELSE timeCreated[1]

\* the scan that also replaces the newest by a file as new
RECURSIVE ScanNewestOrEqual(_, _, _)
ScanNewestOrEqual(files, i, newest) ==
    IF i > Len(files) THEN newest
    ELSE ScanNewestOrEqual(files, i + 1,
                    IF DateOf(newest.timeCreated) <= DateOf(files[i].timeCreated)
                    THEN files[i] ELSE newest)

\* the scan with the comparison turned round
RECURSIVE ScanOldest(_, _, _)
ScanOldest(files, i, newest) ==
    IF i > Len(files) THEN newest
    ELSE ScanOldest(files, i + 1,
                    IF DateOf(newest.timeCreated) > DateOf(files[i].timeCreated)
                    THEN files[i] ELSE newest)

\* findCacheEntry, the scan for the newest file: for (const file of files)
RECURSIVE ScanNewest(_, _, _)
ScanNewest(files, i, newest) ==
    IF i > Len(files) THEN newest
    ELSE ScanNewest(files, i + 1,
                    IF DateOf(newest.timeCreated) < DateOf(files[i].timeCreated)
                    THEN files[i] ELSE newest)

\* the choice without the test for an exact match
SelectNewest(files, prefix) == ScanNewest(files, 1, files[1])

\* findCacheEntry, the choice among the files listed for one key (not empty)
SelectEntry(files, prefix) ==
    IF files[1].name = prefix THEN files[1]
    ELSE ScanNewest(files, 1, files[1])

(***************************************************************************)
(* Options and validation.                                                 *)
(***************************************************************************)
\* getCommonOptions: the bucket of the options, else of the environment
\* variable ACTIONS_GCS_CACHE_BUCKET, else <<>> (ConfigUnsetError is thrown)
getCommonOptions(bucketOption, envBucket) ==
    IF bucketOption # <<>> THEN bucketOption
    ELSE IF envBucket = "" THEN <<>>
    ELSE <<envBucket>>

\* lookupOnly defaulting to true
getLookupOnlyDefaultTrue(lookupOnlyOption) ==
    IF lookupOnlyOption = <<>> THEN TRUE ELSE lookupOnlyOption[1]

\* getDownloadOptions: lookupOnly defaults to false
getLookupOnly(lookupOnlyOption) ==
    IF lookupOnlyOption = <<>> THEN FALSE ELSE lookupOnlyOption[1]

\* checkKey with the limit a character too high
checkKeyLax(key) == Len(key) > KeyMaxLength + 1

\* checkKey throws
checkKey(key) == Len(key) > KeyMaxLength

\* the count check with >= for >
TooManyKeysStrict(ks) == Len(ks) >= KeysMaxCount

\* restoreCache: keys.length > 10
TooManyKeys(ks) == Len(ks) > KeysMaxCount

\* the decoding without the test of the method named after the prefix
DecodeAnyMethod(contentType) ==
    IF contentType = "" THEN <<>>
    ELSE IF ~StartsWith(contentType, ContentTypePrefix) THEN <<>>
    ELSE <<Substring(contentType, Len(ContentTypePrefix))>>

\* restoreCache, from the content type of the entry to the compression
\* method: <<>> when the entry is refused
DecodeMethod(contentType) ==
    IF contentType = "" THEN <<>>
    ELSE IF ~StartsWith(contentType, ContentTypePrefix) THEN <<>>
    ELSE LET m == Substring(contentType, Len(ContentTypePrefix))
         IN  IF m # "zstd" /\ m # "gzip" THEN <<>> ELSE <<m>>

\* the content type with the prefix cut before its last character
ContentTypeNoDash(compressionMethod) ==
    SubSeq(ContentTypePrefix, 1, Len(ContentTypePrefix) - 1) \o compressionMethod

\* saveCache, the content type of the object uploaded:
\* `${ContentTypePrefix}${method}`
ContentTypeOf(compressionMethod) == ContentTypePrefix \o compressionMethod

\* the object name without the slash between repository and key
DestinationNoSlash(repo, key) == repo \o key

\* saveCache, the name of the object uploaded: `${repo}/${key}`
Destination(repo, key) == repo \o "/" \o key

\* restoreCache: entry.name.substring(repository.length)
StripRepository(name, repo) == Substring(name, Len(repo))

(***************************************************************************)
(* State.                                                                  *)
(***************************************************************************)
VARIABLES
    store,        \* the objects of the bucket
    clock,        \* the latest creation time the bucket has given an object
    pc,           \* where the running call stands ("idle": no call runs)
    op,           \* "saveCache", "restoreCache" or "" when idle
    args,         \* the arguments and environment of the call, as passed
    repository,   \* context.repo.repo
    options,      \* the options after getUploadOptions / getDownloadOptions
    keys,         \* restoreCache: [primaryKey, ...restoreKeys]
    idx,          \* findCacheEntry: the position in keys of the key listed next
    files,        \* findCacheEntry: the listing of the key listed last
    entry,        \* restoreCache: <<the entry found>>, or <<>>
    method,       \* the compression method of the call, or ""
    destination,  \* restoreCache: <<the path of the downloaded archive>>, or <<>>
    cachePaths,   \* saveCache: the resolved paths
    manifest,     \* saveCache: <<the lines written to manifest.txt>>, or <<>>
    result,       \* how the call ended
    log,          \* the I/O calls of the running call, in order
    fs,           \* the temporary files and directories that exist
    tar,          \* the tar process restoreCache started: none, running, ok, failed
    upload,       \* the upload saveCache started: none, running, ok, failed
    platform,     \* getCommands: process.platform, or ""
    gnuTar,       \* getCommands: <<the path of the GNU tar found>>, or <<>>
    commandType,  \* getCommands: create, extract or list, or ""
    archivePath,  \* getCommands: the archive passed, "" by default
    commands      \* the commands getCommands returned

vars == <<store, clock, pc, op, args, repository, options, keys, idx, files,
          entry, method, destination, cachePaths, manifest, result, log, fs, tar, upload,
          platform, gnuTar, commandType, archivePath, commands>>

\* the variables only the tar module's getCommands and execCommands write
tarVars == <<platform, gnuTar, commandType, archivePath, commands>>

\* the variables only saveCache writes
saveVars == <<cachePaths, manifest, upload>>

\* how a call ends
Pending == [kind |-> "pending", value |-> ""]
Returned(v) == [kind |-> "returned", value |-> v]
ReturnedUndefined == [kind |-> "undefined", value |-> ""]
Thrown(e) == [kind |-> "thrown", value |-> e]

\* one I/O call of the log
Io(name, arg, ok) == [op |-> name, arg |-> arg, ok |-> ok]

NoArgs ==
    [paths |-> <<>>, key |-> "", restoreKeys |-> <<>>, lookupOnly |-> <<>>,
     tree |-> {}]

NoOptions == [bucket |-> <<>>, lookupOnly |-> FALSE]

\* no call runs: the state of a call that has not started
Idle ==
    /\ pc = "idle" /\ op = "" /\ args = NoArgs /\ repository = ""
    /\ options = NoOptions /\ keys = <<>> /\ idx = 0 /\ files = <<>> /\ entry = <<>>
    /\ method = "" /\ destination = <<>> /\ cachePaths = <<>> /\ manifest = <<>>
    /\ result = Pending /\ log = <<>> /\ fs = {} /\ tar = "none" /\ upload = "none"

\* getCommands was not called
NoCommands ==
    /\ platform = "" /\ gnuTar = <<>> /\ commandType = "" /\ archivePath = ""
    /\ commands = <<>>

Init ==
    /\ store \in Buckets(InitialObjects, MaxObjects)
    /\ clock = 1
    /\ Idle
    /\ NoCommands

(***************************************************************************)
(* restoreCache.                                                           *)
(***************************************************************************)
\* n keys, all b but the last
KeysEndingIn(n, last) == [i \in 1..n |-> IF i = n THEN last ELSE "b"]

\* the restoreKeys callers pass: none, one, and lists that make 10 and 11 keys
\* with the primary key
RestoreKeyLists ==
    {<<>>, <<"a">>}
    \cup {KeysEndingIn(KeysMaxCount - 1, "a"),
          KeysEndingIn(KeysMaxCount - 1, KeyOverLimit),
          KeysEndingIn(KeysMaxCount, "a")}

\* restoreCache up to its first await: options, key list, validation
RestoreCacheCall(primaryKey, restoreKeys, bucketOption, envBucket, lookupOnlyOption, repo) ==
    LET bucket == getCommonOptions(bucketOption, envBucket)
        ks == <<primaryKey>> \o restoreKeys
    IN  /\ pc = "idle"
        /\ op' = "restoreCache"
        /\ args' = [paths |-> <<>>, key |-> primaryKey, restoreKeys |-> restoreKeys,
                    lookupOnly |-> lookupOnlyOption, tree |-> {}]
        /\ repository' = repo
        /\ IF bucket = <<>>
           THEN /\ result' = Thrown("ConfigUnsetError")
                /\ pc' = "done"
                /\ UNCHANGED <<options, keys, idx>>
           ELSE /\ options' = [bucket |-> bucket,
                               lookupOnly |-> getLookupOnly(lookupOnlyOption)]
                /\ keys' = ks
                /\ IF TooManyKeys(ks) \/ \E i \in 1..Len(ks) : checkKey(ks[i])
                   THEN /\ result' = Thrown("ValidationError")
                        /\ pc' = "done"
                        /\ idx' = idx
                   ELSE /\ result' = result
                        /\ pc' = "find"
                        /\ idx' = 1
        /\ UNCHANGED <<store, clock, files, entry, method, destination, log, fs, tar>>
        /\ UNCHANGED saveVars
        /\ UNCHANGED tarVars

\* the catch of restoreCache: a non-validation error is logged as a warning and
\* the call goes on to its finally block, to return undefined
Suppressed(io) ==
    /\ log' = Append(log, io)
    /\ result' = ReturnedUndefined
    /\ pc' = "finally"

\* the loop over the keys ending one key early
HasNextKeyButLast(i, ks) == i < Len(ks) - 1

\* the loop that gives up after the key it is at
HasNextKeyNever(i, ks) == FALSE

\* findCacheEntry, for (const key of keys): a key follows the i-th
HasNextKey(i, ks) == i < Len(ks)

\* findCacheEntry, one turn of its loop: the listing of keys[idx] and what
\* follows from it
FindCacheEntry ==
    /\ pc = "find"
    /\ LET prefix == repository \o "/" \o keys[idx]
       IN  \/ /\ Suppressed(Io("getFiles", prefix, FALSE))
              /\ UNCHANGED <<idx, files, entry>>
           \/ \E listing \in Orderings(Matching(store, prefix)) :
                /\ log' = Append(log, Io("getFiles", prefix, TRUE))
                /\ files' = listing
                /\ IF Len(listing) = 0
                   THEN IF HasNextKey(idx, keys)
                        THEN /\ idx' = idx + 1
                             /\ UNCHANGED <<pc, entry, result>>
                        ELSE /\ result' = ReturnedUndefined
                             /\ pc' = "finally"
                             /\ UNCHANGED <<idx, entry>>
                   ELSE /\ entry' = <<SelectEntry(listing, prefix)>>
                        /\ pc' = "decode"
                        /\ UNCHANGED <<idx, result>>
    /\ UNCHANGED <<store, clock, op, args, repository, options, keys, method,
                   destination, fs, tar>>
    /\ UNCHANGED saveVars
    /\ UNCHANGED tarVars

\* restoreCache, from the entry to the decision to download: the content type
\* and lookupOnly
DecodeContentType ==
    /\ pc = "decode"
    /\ LET m == DecodeMethod(entry[1].contentType)
       IN  IF m = <<>>
           THEN /\ result' = ReturnedUndefined
                /\ pc' = "finally"
                /\ method' = method
           ELSE /\ method' = m[1]
                /\ IF options.lookupOnly
                   THEN /\ result' = Returned(StripRepository(entry[1].name, repository))
                        /\ pc' = "finally"
                   ELSE /\ result' = result
                        /\ pc' = "mkdtemp_r"
    /\ UNCHANGED <<store, clock, op, args, repository, options, keys, idx, entry,
                   destination, log, fs, tar>>
    /\ UNCHANGED files
    /\ UNCHANGED saveVars
    /\ UNCHANGED tarVars

\* restoreCache: createTempDirectory, and the destination of the download
RestoreCreateTempDirectory ==
    /\ pc = "mkdtemp_r"
    /\ \/ /\ Suppressed(Io("mkdirP", "tmpdir", FALSE))
          /\ UNCHANGED <<destination, fs>>
       \/ /\ log' = Append(log, Io("mkdirP", "tmpdir", TRUE))
          /\ fs' = fs \cup {"tmpdir"}
          /\ destination' = <<"tmpdir/cache.tar." \o method>>
          /\ pc' = "download"
          /\ result' = result
    /\ UNCHANGED <<store, clock, op, args, repository, options, keys, idx, entry,
                   method, tar>>
    /\ UNCHANGED files
    /\ UNCHANGED saveVars
    /\ UNCHANGED tarVars

\* restoreCache: entry.download({ destination })
Download ==
    /\ pc = "download"
    /\ \/ /\ Suppressed(Io("download", entry[1].name, FALSE))
          /\ fs' = fs
       \/ /\ log' = Append(log, Io("download", entry[1].name, TRUE))
          /\ fs' = fs \cup {destination[1]}
          /\ pc' = "extract"
          /\ result' = result
    /\ UNCHANGED <<store, clock, op, args, repository, options, keys, idx, entry,
                   method, destination, tar>>
    /\ UNCHANGED files
    /\ UNCHANGED saveVars
    /\ UNCHANGED tarVars

\* extractTar and the return of restoreCache: the working directory is made,
\* tar is started and not awaited, and the key of the entry is returned
ExtractTar ==
    /\ pc = "extract"
    /\ \/ /\ Suppressed(Io("mkdirP", "workdir", FALSE))
          /\ tar' = tar
       \/ /\ log' = Append(Append(log, Io("mkdirP", "workdir", TRUE)),
                           Io("exec tar xf", destination[1], TRUE))
          /\ tar' = "running"
          /\ result' = Returned(StripRepository(entry[1].name, repository))
          /\ pc' = "finally"
    /\ UNCHANGED <<store, clock, op, args, repository, options, keys, idx, entry,
                   method, destination, fs>>
    /\ UNCHANGED files
    /\ UNCHANGED saveVars
    /\ UNCHANGED tarVars

\* the finally block of restoreCache: the archive is removed if it was named;
\* a failure to remove it is only logged
Finally ==
    /\ pc = "finally"
    /\ IF destination = <<>>
       THEN UNCHANGED <<log, fs>>
       ELSE \/ /\ log' = Append(log, Io("rmRF", destination[1], TRUE))
               /\ fs' = fs \ {destination[1]}
            \/ /\ log' = Append(log, Io("rmRF", destination[1], FALSE))
               /\ fs' = fs
    /\ pc' = "done"
    /\ UNCHANGED <<store, clock, op, args, repository, options, keys, idx, entry,
                   method, destination, result, tar>>
    /\ UNCHANGED files
    /\ UNCHANGED saveVars
    /\ UNCHANGED tarVars

\* the tar process restoreCache started exits, with or without an error
TarExits ==
    /\ tar = "running"
    /\ tar' \in {"ok", "failed"}
    /\ UNCHANGED <<store, clock, pc, op, args, repository, options, keys, idx,
                   entry, method, destination, result, log, fs>>
    /\ UNCHANGED files
    /\ UNCHANGED saveVars
    /\ UNCHANGED tarVars

\* the caller has the outcome and the process ends: the next call starts afresh
Settle ==
    /\ pc = "done"
    /\ tar # "running" /\ upload # "running"
    /\ pc' = "idle" /\ op' = "" /\ args' = NoArgs /\ repository' = ""
    /\ options' = NoOptions /\ keys' = <<>> /\ idx' = 0 /\ files' = <<>> /\ entry' = <<>>
    /\ method' = "" /\ destination' = <<>> /\ cachePaths' = <<>> /\ manifest' = <<>>
    /\ result' = Pending /\ log' = <<>> /\ fs' = {} /\ tar' = "none" /\ upload' = "none"
    /\ UNCHANGED <<store, clock>>
    /\ UNCHANGED tarVars

RestoreCache ==
    \E primaryKey \in Keys, restoreKeys \in RestoreKeyLists,
       bucketOption \in {<<>>, <<"bkt">>}, envBucket \in {"", "bkt"},
       lookupOnlyOption \in {<<>>, <<TRUE>>, <<FALSE>>}, repo \in Repos :
        RestoreCacheCall(primaryKey, restoreKeys, bucketOption, envBucket,
                         lookupOnlyOption, repo)

(***************************************************************************)
(* saveCache.                                                              *)
(***************************************************************************)
\* the variables only restoreCache writes
restoreVars == <<keys, idx, files, entry, destination, tar>>

\* the keys saveCache is called with
SaveKeys == {"a", KeyOverLimit}

\* the path patterns saveCache is called with
PathLists == {<<"out/*">>, <<"out/x">>, <<".">>}

\* the files of the working tree a call may find, as paths relative to it
WorkingTrees == {{}, {"out/x", "out/y"}}

\* the matches of one pattern in a working tree, in the globber's order, as
\* paths relative to the working directory ("" is the working directory)
GlobPattern(pattern, tree) ==
    IF pattern = "." THEN <<"">>
    ELSE IF pattern = "out/*"
         THEN (IF "out/x" \in tree THEN <<"out/x">> ELSE <<>>)
              \o (IF "out/y" \in tree THEN <<"out/y">> ELSE <<>>)
         ELSE IF pattern \in tree THEN <<pattern>> ELSE <<>>

RECURSIVE Glob(_, _)
Glob(patterns, tree) ==
    IF patterns = <<>> THEN <<>>
    ELSE GlobPattern(Head(patterns), tree) \o Glob(Tail(patterns), tree)

\* resolvePaths, on the matches of the globber: the working directory itself
\* is pushed as "."
resolvePaths(matches) ==
    [i \in 1..Len(matches) |-> IF matches[i] = "" THEN "." ELSE matches[i]]

\* Array.prototype.join
RECURSIVE Join(_, _)
Join(strings, sep) ==
    IF strings = <<>> THEN ""
    ELSE IF Len(strings) = 1 THEN strings[1]
    ELSE strings[1] \o sep \o Join(Tail(strings), sep)

\* saveCache, the first argument of its call of createTar after archive and
\* tempdir: the paths the manifest lists
ManifestPaths(paths, resolved) == paths

\* saveCache ends: after the try block, whose catch is empty, it throws
SaveOutcome == Thrown("not implemented")

\* saveCache up to its first await: getUploadOptions
SaveCacheCall(paths, key, bucketOption, envBucket, repo, tree) ==
    LET bucket == getCommonOptions(bucketOption, envBucket)
    IN  /\ pc = "idle"
        /\ op' = "saveCache"
        /\ args' = [paths |-> paths, key |-> key, restoreKeys |-> <<>>,
                    lookupOnly |-> <<>>, tree |-> tree]
        /\ repository' = repo
        /\ IF bucket = <<>>
           THEN /\ result' = Thrown("ConfigUnsetError")
                /\ pc' = "done"
                /\ options' = options
           ELSE /\ options' = [bucket |-> bucket, lookupOnly |-> FALSE]
                /\ result' = result
                /\ pc' = "probe"
        /\ UNCHANGED <<store, clock, method, log, fs>>
        /\ UNCHANGED saveVars
        /\ UNCHANGED restoreVars
        /\ UNCHANGED tarVars

\* getCompressionMethod: zstd --quiet --version prints a version, or nothing
\* (also when it cannot be run: the error is only logged)
GetCompressionMethod ==
    /\ pc = "probe"
    /\ \E versionOutput \in {"", "1.5.5"} :
        /\ log' = Append(log, Io("exec zstd", "--version", versionOutput # ""))
        /\ method' = IF versionOutput = "" THEN "gzip" ELSE "zstd"
    /\ pc' = "glob"
    /\ UNCHANGED <<store, clock, op, args, repository, options, result, fs>>
    /\ UNCHANGED saveVars
    /\ UNCHANGED restoreVars
    /\ UNCHANGED tarVars

\* the check of the resolved paths left out
NeverNothingToCache(resolved) == FALSE

\* saveCache: cachePaths.length === 0
NothingToCache(resolved) == Len(resolved) = 0

\* saveCache: resolvePaths and the check of its result
ResolvePaths ==
    /\ pc = "glob"
    /\ \/ /\ log' = Append(log, Io("glob", Join(args.paths, "\n"), FALSE))
          /\ result' = Thrown("Error: glob")
          /\ pc' = "done"
          /\ cachePaths' = cachePaths
       \/ /\ log' = Append(log, Io("glob", Join(args.paths, "\n"), TRUE))
          /\ cachePaths' = resolvePaths(Glob(args.paths, args.tree))
          /\ IF NothingToCache(cachePaths')
             THEN /\ result' = Thrown("ValidationError")
                  /\ pc' = "done"
             ELSE /\ result' = result
                  /\ pc' = "mkdtemp"
    /\ UNCHANGED <<store, clock, op, args, repository, options, method, fs,
                   manifest, upload>>
    /\ UNCHANGED restoreVars
    /\ UNCHANGED tarVars

\* saveCache: createTempDirectory, outside the try block
SaveCreateTempDirectory ==
    /\ pc = "mkdtemp"
    /\ \/ /\ log' = Append(log, Io("mkdirP", "tmpdir", FALSE))
          /\ result' = Thrown("Error: mkdirP")
          /\ pc' = "done"
          /\ fs' = fs
       \/ /\ log' = Append(log, Io("mkdirP", "tmpdir", TRUE))
          /\ fs' = fs \cup {"tmpdir"}
          /\ result' = result
          /\ pc' = "manifest"
    /\ UNCHANGED <<store, clock, op, args, repository, options, method>>
    /\ UNCHANGED saveVars
    /\ UNCHANGED restoreVars
    /\ UNCHANGED tarVars

\* createTar, the manifest: writeFile(manifest, paths.join("\n")); an error is
\* caught by the empty catch of saveCache
WriteManifest ==
    /\ pc = "manifest"
    /\ LET lines == Join(ManifestPaths(args.paths, cachePaths), "\n")
       IN  \/ /\ log' = Append(log, Io("writeFile", "tmpdir/manifest.txt", FALSE))
              /\ result' = SaveOutcome
              /\ pc' = "done"
              /\ UNCHANGED <<manifest, fs>>
           \/ /\ log' = Append(log, Io("writeFile", "tmpdir/manifest.txt", TRUE))
              /\ manifest' = <<lines>>
              /\ fs' = fs \cup {"tmpdir/manifest.txt"}
              /\ result' = result
              /\ pc' = "tar"
    /\ UNCHANGED <<store, clock, op, args, repository, options, method,
                   cachePaths, upload>>
    /\ UNCHANGED restoreVars
    /\ UNCHANGED tarVars

\* createTar, the archive, and the rest of saveCache: tar is awaited; when it
\* succeeds the upload is started and not awaited; then the call throws
CreateTarAndUpload ==
    /\ pc = "tar"
    /\ LET archive == "tmpdir/cache.tar." \o method
       IN  \/ /\ log' = Append(log, Io("exec tar cf", archive, FALSE))
              /\ UNCHANGED <<fs, upload>>
           \/ /\ log' = Append(Append(log, Io("exec tar cf", archive, TRUE)),
                               Io("upload", Destination(repository, args.key), TRUE))
              /\ fs' = fs \cup {archive}
              /\ upload' = "running"
    /\ result' = SaveOutcome
    /\ pc' = "done"
    /\ UNCHANGED <<store, clock, op, args, repository, options, method,
                   cachePaths, manifest>>
    /\ UNCHANGED restoreVars
    /\ UNCHANGED tarVars

\* the upload saveCache started ends: the object exists, under the name and
\* content type saveCache gave, or the upload failed
UploadEnds ==
    /\ upload = "running"
    /\ LET name == Destination(repository, args.key)
           t == IF clock < MaxTime THEN clock + 1 ELSE MaxTime
           kept == {f \in store : f.name # name}
       IN  \/ /\ Cardinality(kept) < MaxObjects
              /\ store' = kept \cup {File(name, <<t>>, ContentTypeOf(method))}
              /\ clock' = t
              /\ upload' = "ok"
           \/ /\ upload' = "failed"
              /\ UNCHANGED <<store, clock>>
    /\ UNCHANGED <<pc, op, args, repository, options, method, cachePaths,
                   manifest, result, log, fs>>
    /\ UNCHANGED restoreVars
    /\ UNCHANGED tarVars

SaveCache ==
    \E paths \in PathLists, key \in SaveKeys, bucketOption \in {<<>>, <<"bkt">>},
       envBucket \in {"", "bkt"}, repo \in Repos, tree \in WorkingTrees :
        SaveCacheCall(paths, key, bucketOption, envBucket, repo, tree)

(***************************************************************************)
(* The program: calls of saveCache and restoreCache, one after another.    *)
(***************************************************************************)
Next ==
    \/ RestoreCache
    \/ FindCacheEntry
    \/ DecodeContentType
    \/ RestoreCreateTempDirectory
    \/ Download
    \/ ExtractTar
    \/ Finally
    \/ TarExits
    \/ SaveCache
    \/ GetCompressionMethod
    \/ ResolvePaths
    \/ SaveCreateTempDirectory
    \/ WriteManifest
    \/ CreateTarAndUpload
    \/ UploadEnds
    \/ Settle

Spec == Init /\ [][Next]_vars

(***************************************************************************)
(* Key resolution on its own: findCacheEntry on the listings of buckets    *)
(* of up to MaxFiles objects, for one and two candidate keys.              *)
(***************************************************************************)
ResolvedKeyLists ==
    UNION {[1..n -> {"a", "ab", "b"}] : n \in 1..2}

InitFind ==
    /\ store \in Buckets(ListedObjects, MaxFiles)
    /\ clock = MaxTime
    /\ keys \in ResolvedKeyLists
    /\ pc = "find" /\ op = "restoreCache" /\ repository = "r"
    /\ args = [paths |-> <<>>, key |-> keys[1], restoreKeys |-> Tail(keys),
               lookupOnly |-> <<>>, tree |-> {}]
    /\ options = [bucket |-> <<"bkt">>, lookupOnly |-> FALSE]
    /\ idx = 1 /\ files = <<>> /\ entry = <<>>
    /\ method = "" /\ destination = <<>> /\ cachePaths = <<>> /\ manifest = <<>>
    /\ result = Pending /\ log = <<>> /\ fs = {} /\ tar = "none" /\ upload = "none"
    /\ NoCommands

NextFind == FindCacheEntry

SpecFind == InitFind /\ [][NextFind]_vars

(***************************************************************************)
(* The tar module: getCommands builds the command lines of tar and of the  *)
(* compression program, execCommands runs them.  process.platform and the  *)
(* GNU tar found on the host are read from the state, as the code reads    *)
(* them from its process.                                                  *)
(***************************************************************************)
\* String.prototype.replace(new RegExp(c, "g"), d), c and d one character
RECURSIVE ReplaceAll(_, _, _)
ReplaceAll(s, c, d) ==
    IF s = "" THEN ""
    ELSE (IF SubSeq(s, 1, 1) = c THEN d ELSE SubSeq(s, 1, 1))
         \o ReplaceAll(SubSeq(s, 2, Len(s)), c, d)

\* path.sep
PathSep == IF platform = "win32" THEN "\\" ELSE "/"

\* s.replace(SepRe, "/")
ReplaceSep(s) == ReplaceAll(s, PathSep, "/")

ManifestFilename == "manifest.txt"

\* utils.ts, getCacheFilename
getCacheFilename(compressionMethod) == "cache.tar." \o compressionMethod

\* utils.ts, getWorkingDirectory: GITHUB_WORKSPACE of the host
getWorkingDirectory ==
    IF platform = "win32" THEN "D:\\a\\w" ELSE "/home/runner/w"

\* `${process.env["SYSTEMDRIVE"]}\\Windows\\System32\\tar.exe`
SystemTar == "C:\\Windows\\System32\\tar.exe"

\* io.which("tar", true)
WhichTar == "/usr/bin/tar"

\* what the search for a GNU tar may give on the host: nothing, or its path
\* (getGnuTarPathOnWindows on win32, io.which("gtar", false) on darwin)
GnuTarFound ==
    IF platform = "win32" THEN {<<>>, <<"C:\\Git\\usr\\bin\\tar.exe">>}
    ELSE IF platform = "darwin" THEN {<<>>, <<"/usr/local/bin/gtar">>}
    ELSE {<<>>}

\* getTarPath
getTarPath ==
    IF platform = "win32"
    THEN IF gnuTar # <<>> THEN [path |-> gnuTar[1], type |-> "gnu"]
         ELSE [path |-> SystemTar, type |-> "bsd"]
    ELSE IF platform = "darwin"
    THEN IF gnuTar # <<>> THEN [path |-> gnuTar[1], type |-> "gnu"]
         ELSE [path |-> WhichTar, type |-> "bsd"]
    ELSE [path |-> WhichTar, type |-> "gnu"]

\* the test without the platform
bsdTarZstdAnyPlatform(tarTool, compressionMethod) ==
    tarTool.type = "bsd" /\ compressionMethod = "zstd"

\* const bsdTarZstd, as getTarArgs, getCommands, getCompressionProgram and
\* getDecompressionProgram each compute it
bsdTarZstd(tarTool, compressionMethod) ==
    tarTool.type = "bsd" /\ compressionMethod = "zstd" /\ platform = "win32"

\* getTarArgs
getTarArgs(tarTool, compressionMethod, type, archive) ==
    LET filename == getCacheFilename(compressionMethod)
        workdir == getWorkingDirectory
        tarfile == "cache.tar"
        split == bsdTarZstd(tarTool, compressionMethod)
        argv ==
            <<tarTool.path>> \o
            (IF type = "create"
             THEN <<"--posix", "-cf",
                    IF split THEN tarfile ELSE ReplaceSep(filename),
                    "--exclude",
                    IF split THEN tarfile ELSE ReplaceSep(filename),
                    "-P", "-C", ReplaceSep(workdir),
                    "--files-from", ManifestFilename>>
             ELSE IF type = "extract"
             THEN <<"-xf", IF split THEN tarfile ELSE ReplaceSep(archive),
                    "-P", "-C", ReplaceSep(workdir)>>
             ELSE <<"-tf", IF split THEN tarfile ELSE ReplaceSep(archive),
                    "-P">>)
    IN  IF tarTool.type = "gnu"
        THEN IF platform = "win32" THEN Append(argv, "--force-local")
             ELSE IF platform = "darwin"
             THEN Append(argv, "--delay-directory-restore")
             ELSE argv
        ELSE argv

\* getCompressionProgram
getCompressionProgram(tarTool, compressionMethod) ==
    LET filename == getCacheFilename(compressionMethod)
    IN  IF compressionMethod = "zstd"
        THEN IF bsdTarZstd(tarTool, compressionMethod)
             THEN <<"zstd -T0 --force -o", ReplaceSep(filename), "cache.tar">>
             ELSE <<"--use-compress-program",
                    IF platform = "win32" THEN "\"zstd -T0\"" ELSE "zstdmt">>
        ELSE <<"-z">>

\* getDecompressionProgram
getDecompressionProgram(tarTool, compressionMethod, archive) ==
    IF compressionMethod = "zstd"
    THEN IF bsdTarZstd(tarTool, compressionMethod)
         THEN <<"zstd -d --force -o", "cache.tar", ReplaceSep(archive)>>
         ELSE <<"--use-compress-program",
                IF platform = "win32" THEN "\"zstd -d\"" ELSE "zstdmt">>
    ELSE <<"-z">>

\* getCommands with the tar command always first
getCommandsTarFirst(compressionMethod, type, archive) ==
    LET tarTool == getTarPath
        tarArgs == getTarArgs(tarTool, compressionMethod, type, archive)
        compressArgs ==
            IF type # "create"
            THEN getDecompressionProgram(tarTool, compressionMethod, archive)
            ELSE getCompressionProgram(tarTool, compressionMethod)
        argv == <<Join(tarArgs, " "), Join(compressArgs, " ")>>
    IN  IF bsdTarZstd(tarTool, compressionMethod) THEN argv
        ELSE <<Join(argv, " ")>>

\* getCommands
getCommands(compressionMethod, type, archive) ==
    LET tarTool == getTarPath
        tarArgs == getTarArgs(tarTool, compressionMethod, type, archive)
        compressArgs ==
            IF type # "create"
            THEN getDecompressionProgram(tarTool, compressionMethod, archive)
            ELSE getCompressionProgram(tarTool, compressionMethod)
        split == bsdTarZstd(tarTool, compressionMethod)
        argv ==
            IF split /\ type # "create"
            THEN <<Join(compressArgs, " "), Join(tarArgs, " ")>>
            ELSE <<Join(tarArgs, " "), Join(compressArgs, " ")>>
    IN  IF split THEN argv ELSE <<Join(argv, " ")>>

\* command.split(" ")[0]
RECURSIVE FirstWord(_)
FirstWord(s) ==
    IF s = "" \/ SubSeq(s, 1, 1) = " " THEN ""
    ELSE SubSeq(s, 1, 1) \o FirstWord(SubSeq(s, 2, Len(s)))

\* the archives getCommands is passed: none (createTar), and a path of the
\* host's temporary directory (extractTar)
ArchivePaths ==
    {"", IF platform = "win32" THEN "D:\\t\\cache.tar.zstd"
         ELSE "/tmp/t/cache.tar.zstd"}

\* a host, and a call of getCommands about to be made on it
InitCommands ==
    /\ platform \in {"win32", "darwin", "linux"}
    /\ gnuTar \in GnuTarFound
    /\ method \in {"gzip", "zstd"}
    /\ commandType \in {"create", "extract", "list"}
    /\ archivePath \in ArchivePaths
    /\ commands = <<>>
    /\ pc = "commands" /\ op = "getCommands"
    /\ store = {} /\ clock = 1
    /\ args = NoArgs /\ repository = "" /\ options = NoOptions
    /\ keys = <<>> /\ idx = 0 /\ files = <<>> /\ entry = <<>>
    /\ destination = <<>> /\ cachePaths = <<>> /\ manifest = <<>>
    /\ result = Pending /\ log = <<>> /\ fs = {} /\ tar = "none" /\ upload = "none"

\* createTar, extractTar: const commands = await getCommands(...)
GetCommands ==
    /\ pc = "commands"
    /\ commands' = getCommands(method, commandType, archivePath)
    /\ pc' = "exec"
    /\ UNCHANGED <<store, clock, op, args, repository, options, method, result,
                   log, fs, platform, gnuTar, commandType, archivePath>>
    /\ UNCHANGED saveVars
    /\ UNCHANGED restoreVars

\* execCommands, one turn of its loop: the next command runs, and the loop
\* goes on, ends after the last command, or throws when the command failed
ExecCommands ==
    /\ pc = "exec"
    /\ Len(log) < Len(commands)
    /\ LET command == commands[Len(log) + 1]
       IN  \/ /\ log' = Append(log, Io("exec", command, TRUE))
              /\ IF Len(log) + 1 = Len(commands)
                 THEN /\ pc' = "done"
                      /\ result' = ReturnedUndefined
                 ELSE UNCHANGED <<pc, result>>
           \/ /\ log' = Append(log, Io("exec", command, FALSE))
              /\ result' = Thrown(FirstWord(command) \o " failed with error")
              /\ pc' = "done"
    /\ UNCHANGED <<store, clock, op, args, repository, options, method, fs>>
    /\ UNCHANGED saveVars
    /\ UNCHANGED restoreVars
    /\ UNCHANGED tarVars

NextCommands ==
    \/ GetCommands
    \/ ExecCommands

SpecCommands == InitCommands /\ [][NextCommands]_vars

(***************************************************************************)
(* Properties.                                                             *)
(***************************************************************************)
\* the key list the caller of restoreCache passed
PassedKeys == <<args.key>> \o args.restoreKeys

HasLongKey == \E i \in 1..Len(PassedKeys) : Len(PassedKeys[i]) > KeyMaxLength

ValidKeys == Len(PassedKeys) <= KeysMaxCount /\ ~HasLongKey

\* the running call has made the I/O call name / has had it fail
Did(name) == \E i \in 1..Len(log) : log[i].op = name
Failed(name) == \E i \in 1..Len(log) : log[i].op = name /\ ~log[i].ok

\* the call has not listed, downloaded, made a temporary directory or extracted
NoRestoreIo ==
    /\ ~Did("getFiles") /\ ~Did("download") /\ ~Did("mkdirP")
    /\ ~Did("exec tar xf") /\ tar = "none" /\ fs = {}

\* C1, as claimed: a restoreCache call with a key of more than 512 characters
\* anywhere in [primaryKey, ...restoreKeys] fails with a ValidationError, and
\* no listing, download, temporary directory or extraction has happened.
C1_Original ==
    (op = "restoreCache" /\ HasLongKey)
        => /\ pc = "done"
           /\ result = Thrown("ValidationError")
           /\ NoRestoreIo

\* C1, amended: such a call fails before any listing, download, temporary
\* directory or extraction, with a ValidationError when the bucket is
\* configured and with the ConfigUnsetError of getDownloadOptions when not.
C1_LongKeyRejected ==
    (op = "restoreCache" /\ HasLongKey)
        => /\ pc = "done"
           /\ result = IF options.bucket = <<>> THEN Thrown("ConfigUnsetError")
                       ELSE Thrown("ValidationError")
           /\ NoRestoreIo

\* a call rejected for the last of its ten keys, which alone is too long
C1_Witness ==
    /\ op = "restoreCache" /\ pc = "done"
    /\ Len(PassedKeys) = KeysMaxCount
    /\ \A i \in 1..Len(PassedKeys) :
        (Len(PassedKeys[i]) > KeyMaxLength) <=> (i = KeysMaxCount)
    /\ result = Thrown("ValidationError")

\* C2, as claimed (for calls whose bucket is configured): a saveCache call
\* with a key of more than 512 characters is rejected with a validation
\* failure before any path resolution, temporary directory, manifest,
\* archive build or upload.
C2_Claim ==
    (op = "saveCache" /\ options.bucket # <<>> /\ Len(args.key) > KeyMaxLength)
        => /\ pc = "done"
           /\ result = Thrown("ValidationError")
           /\ log = <<>> /\ fs = {} /\ manifest = <<>> /\ upload = "none"

\* C3, as claimed: a restoreCache call with more than 10 keys fails with a
\* ValidationError before any listing or download, and a call with exactly 10
\* keys, none too long, is not rejected by the validation.
C3_Original ==
    op = "restoreCache"
        => /\ Len(PassedKeys) > KeysMaxCount
                => /\ pc = "done"
                   /\ result = Thrown("ValidationError")
                   /\ ~Did("getFiles") /\ ~Did("download")
           /\ (Len(PassedKeys) = KeysMaxCount /\ ~HasLongKey)
                => result # Thrown("ValidationError")

\* C3, amended: with more than 10 keys the call fails before any listing or
\* download, with a ValidationError when the bucket is configured and with a
\* ConfigUnsetError when not; exactly 10 keys, none too long, pass the
\* validation.
C3_TooManyKeysRejected ==
    op = "restoreCache"
        => /\ Len(PassedKeys) > KeysMaxCount
                => /\ pc = "done"
                   /\ result = IF options.bucket = <<>>
                               THEN Thrown("ConfigUnsetError")
                               ELSE Thrown("ValidationError")
                   /\ ~Did("getFiles") /\ ~Did("download")
           /\ (Len(PassedKeys) = KeysMaxCount /\ ~HasLongKey)
                => result # Thrown("ValidationError")

\* a call rejected for its 11 keys, none of them too long
C3_Witness ==
    /\ op = "restoreCache" /\ pc = "done"
    /\ Len(PassedKeys) = KeysMaxCount + 1 /\ ~HasLongKey
    /\ result = Thrown("ValidationError")

\* the prefix findCacheEntry listed last
ListedPrefix == repository \o "/" \o keys[idx]

\* findCacheEntry has just returned an entry
Resolved == pc = "decode" /\ entry # <<>>

\* C4, as claimed: when the listing of a key holds the object named exactly
\* {scope}/{key} and other matches, findCacheEntry returns that object,
\* wherever it stands in the listing.
C4_Original ==
    (/\ Resolved
     /\ Len(files) > 1
     /\ \E i \in 1..Len(files) : files[i].name = ListedPrefix)
        => entry[1].name = ListedPrefix

\* C4, amended: when the object named exactly {scope}/{key} is the first of a
\* listing with other matches, findCacheEntry returns it, whatever the
\* creation times of the others.
C4_ExactMatchFirstWins ==
    (Resolved /\ Len(files) > 1 /\ files[1].name = ListedPrefix)
        => entry[1] = files[1]

\* the exact match is first, a later entry is newer, and the exact match is
\* returned
C4_Witness ==
    /\ Resolved /\ Len(files) > 1 /\ files[1].name = ListedPrefix
    /\ \E i \in 2..Len(files) :
        DateOf(files[i].timeCreated) > DateOf(files[1].timeCreated)
    /\ entry[1] = files[1]

\* C5: when the listing of a key has several entries and none is named
\* exactly {scope}/{key}, the entry findCacheEntry returns is one of the
\* listing and no entry of the listing was created later (an entry without a
\* creation time counts as created at the epoch).
C5_NewestReturned ==
    (/\ Resolved
     /\ Len(files) > 1
     /\ \A i \in 1..Len(files) : files[i].name # ListedPrefix)
        => /\ \E i \in 1..Len(files) : entry[1] = files[i]
           /\ \A i \in 1..Len(files) :
                DateOf(entry[1].timeCreated) >= DateOf(files[i].timeCreated)

\* three prefix matches, none exact, the newest of them not the first listed
C5_Witness ==
    /\ Resolved /\ Len(files) = 3
    /\ \A i \in 1..Len(files) : files[i].name # ListedPrefix
    /\ DateOf(entry[1].timeCreated) > DateOf(files[1].timeCreated)

\* no candidate key of the call has an object under its prefix
NoCandidateMatches ==
    \A i \in 1..Len(PassedKeys) :
        Matching(store, repository \o "/" \o PassedKeys[i]) = {}

\* the I/O of the call is one successful listing for every candidate key, in
\* the order of the keys, and nothing else
QueriedEveryKey ==
    log = [i \in 1..Len(PassedKeys) |->
            Io("getFiles", repository \o "/" \o PassedKeys[i], TRUE)]

\* C6, as claimed: a restoreCache call with valid keys, none of which has an
\* object under its prefix, returns undefined without throwing, after it has
\* queried every candidate key, without download, extraction or temporary
\* directory.
C6_Original ==
    (op = "restoreCache" /\ pc = "done" /\ ValidKeys /\ NoCandidateMatches)
        => /\ result = ReturnedUndefined
           /\ QueriedEveryKey
           /\ fs = {} /\ tar = "none"

\* C6, amended: such a call, when its bucket is configured, returns undefined
\* without throwing and without download, extraction or temporary directory;
\* it has queried every candidate key, in order, unless a listing failed,
\* which ends the resolution at that key.
C6_NoMatchReturnsUndefined ==
    (/\ op = "restoreCache" /\ pc = "done" /\ ValidKeys /\ NoCandidateMatches
     /\ options.bucket # <<>>)
        => /\ result = ReturnedUndefined
           /\ ~Did("download") /\ ~Did("mkdirP") /\ ~Did("exec tar xf")
           /\ fs = {} /\ tar = "none"
           /\ ~Failed("getFiles") => QueriedEveryKey

\* a call with ten keys and no match has listed all ten and returned undefined
C6_Witness ==
    /\ op = "restoreCache" /\ pc = "done" /\ NoCandidateMatches
    /\ Len(PassedKeys) = KeysMaxCount
    /\ Len(log) = KeysMaxCount /\ QueriedEveryKey
    /\ result = ReturnedUndefined

\* a listing, the temporary directory, the download or the extraction failed
RestoreStepFailed ==
    \/ Failed("getFiles") \/ Failed("mkdirP") \/ Failed("download")
    \/ tar = "failed"

\* C7, as claimed: a restoreCache call that passed the key validation and in
\* which a listing, the creation of the temporary directory, the download or
\* the extraction failed returns undefined.
C7_Claim ==
    (/\ op = "restoreCache" /\ pc = "done" /\ ValidKeys /\ options.bucket # <<>>
     /\ RestoreStepFailed)
        => result = ReturnedUndefined

\* C8, as claimed: a saveCache call whose bucket is configured, whose paths
\* resolved to a non-empty list, whose archive was built and whose upload
\* succeeded returns normally.
C8_Claim ==
    (/\ op = "saveCache" /\ pc = "done" /\ options.bucket # <<>>
     /\ cachePaths # <<>> /\ Did("exec tar cf") /\ ~Failed("exec tar cf")
     /\ upload = "ok")
        => result = ReturnedUndefined

\* C9, as claimed: a saveCache call whose archive build or upload failed
\* fails with that failure.
C9_Claim ==
    (op = "saveCache" /\ pc = "done")
        => /\ Failed("exec tar cf") => result = Thrown("Error: exec tar cf")
           /\ upload = "failed" => result = Thrown("Error: upload")

\* resolvePaths has returned, with an empty list
ResolvedEmpty ==
    /\ \E i \in 1..Len(log) : log[i].op = "glob" /\ log[i].ok
    /\ cachePaths = <<>>

\* C10: a saveCache call whose path patterns resolve to an empty list fails
\* with a ValidationError; no temporary directory is created, no manifest
\* written, no archive built and no upload started.
C10_EmptyPathsRejected ==
    (op = "saveCache" /\ ResolvedEmpty)
        => /\ pc = "done"
           /\ result = Thrown("ValidationError")
           /\ ~Did("mkdirP") /\ ~Did("writeFile") /\ ~Did("exec tar cf")
           /\ ~Did("upload") /\ upload = "none" /\ fs = {}

\* a pattern that matches nothing in an empty working tree, rejected
C10_Witness ==
    /\ op = "saveCache" /\ ResolvedEmpty
    /\ args.paths = <<"out/*">> /\ args.tree = {}
    /\ result = Thrown("ValidationError")

\* the temporary directory of the call was created
TempDirectoryCreated ==
    \E i \in 1..Len(log) :
        log[i].op = "mkdirP" /\ log[i].arg = "tmpdir" /\ log[i].ok

\* C11, as claimed: when a saveCache or restoreCache call that created a
\* temporary directory completes, the directory and the manifest and archive
\* staged in it are gone, unless the removal itself failed.
C11_Claim ==
    (pc = "done" /\ TempDirectoryCreated /\ ~Failed("rmRF")) => fs = {}

\* C12, as claimed: the string restoreCache returns for an entry named
\* {scope}/{name} is {name}: the scope, a slash and the string make the name.
C12_Claim ==
    (op = "restoreCache" /\ result.kind = "returned")
        => repository \o "/" \o result.value = entry[1].name

\* the entry resolved has one of the two content types saveCache writes
RecognisedEntry ==
    /\ entry # <<>>
    /\ entry[1].contentType \in
        {ContentTypePrefix \o "gzip", ContentTypePrefix \o "zstd"}

Degraded(contentType) ==
    \/ contentType = ""
    \/ ~StartsWith(contentType, ContentTypePrefix)
    \/ Substring(contentType, Len(ContentTypePrefix)) \notin {"gzip", "zstd"}

\* C14: a restoreCache call whose resolved entry has a degraded content type
\* returns undefined, without temporary directory, download or extraction,
\* whatever lookupOnly is.
C14_DegradedEntryIsMiss ==
    (op = "restoreCache" /\ entry # <<>> /\ Degraded(entry[1].contentType))
        => /\ pc \in {"decode", "finally", "done"}
           /\ pc # "decode" => result = ReturnedUndefined
           /\ ~Did("mkdirP") /\ ~Did("download") /\ ~Did("exec tar xf")
           /\ fs = {} /\ tar = "none"

\* a lookup-only call that resolved an entry of an unknown method, and missed
C14_Witness ==
    /\ op = "restoreCache" /\ pc = "done" /\ args.lookupOnly = <<TRUE>>
    /\ entry # <<>> /\ entry[1].contentType = ContentTypePrefix \o "br"
    /\ result = ReturnedUndefined

\* C17, as claimed: a call does not complete while the tar process or the
\* upload it started is still running.
C17_Claim ==
    pc = "done" => (tar # "running" /\ upload # "running")

\* C20, as claimed: the manifest saveCache writes lists the resolved paths,
\* one per line.
C20_Claim ==
    manifest # <<>> => manifest[1] = Join(cachePaths, "\n")

\* the prefix findCacheEntry lists for the i-th key
PrefixOf(i) == repository \o "/" \o keys[i]

\* C18: findCacheEntry lists the keys in the order of the list, one listing a
\* key; it resolves at the first key whose listing is not empty, to an entry
\* of that listing, with no later key listed and every earlier listing empty;
\* it gives up only after every key was listed.
C18_KeysInOrder ==
    /\ Len(log) <= Len(keys)
    /\ \A i \in 1..Len(log) :
          log[i].op = "getFiles" /\ log[i].arg = PrefixOf(i)
    /\ Resolved
          => /\ Len(log) = idx /\ ~Failed("getFiles")
             /\ \A i \in 1..(idx - 1) : Matching(store, PrefixOf(i)) = {}
             /\ entry[1] \in Matching(store, PrefixOf(idx))
    /\ (pc = "finally" /\ ~Failed("getFiles"))
          => /\ Len(log) = Len(keys)
             /\ \A i \in 1..Len(keys) : Matching(store, PrefixOf(i)) = {}

\* the first key matched by prefix only, the bucket holding an object named
\* exactly as the second key: the first key's listing decided
C18_Witness ==
    /\ Resolved /\ keys = <<"a", "ab">> /\ idx = 1 /\ Len(log) = 1
    /\ \A f \in store : f.name # "r/a"
    /\ \E f \in store : f.name = "r/ab"
    /\ \E f \in store : f.name = "r/ac" /\ entry = <<f>>

\* the object of this name is of this scope: the name is the scope, a slash
\* and a key
InScope(name, scope) == StartsWith(name, scope \o "/")

\* what restoreCache listed and resolved is of the caller's scope and of no
\* other
RestoreStaysInScope ==
    op = "restoreCache"
        => \A f \in {files[i] : i \in 1..Len(files)} \cup {entry[i] : i \in 1..Len(entry)} :
              /\ InScope(f.name, repository)
              /\ \A other \in Repos \ {repository} : ~InScope(f.name, other)

\* a step that changes the bucket is of a saveCache call, and leaves every
\* object of another name as it was: what it wrote is named {scope}/{key}
WritesOwnKeyOnly ==
    store' # store
        => /\ op = "saveCache"
           /\ \A f \in (store' \ store) \cup (store \ store') :
                 /\ f.name = repository \o "/" \o args.key
                 /\ InScope(f.name, repository)
                 /\ \A other \in Repos \ {repository} : ~InScope(f.name, other)

\* C16: every object saveCache writes is named {scope}/{key} with the scope
\* of the saving caller, and every object restoreCache lists or resolves is of
\* the restoring caller's scope, never of another.
C16_ScopesPartition == []RestoreStaysInScope /\ [][WritesOwnKeyOnly]_vars

\* repository r restores the object a save of this run wrote under r/a, while
\* the bucket holds an object of repository rs under the same key
C16_Witness ==
    /\ op = "restoreCache" /\ repository = "r" /\ args.key = "a"
    /\ entry # <<>> /\ entry[1].name = "r/a" /\ entry[1].timeCreated = <<MaxTime>>
    /\ \E f \in store : f.name = "rs/a"

\* getCommands has returned
CommandsBuilt == op = "getCommands" /\ pc \in {"exec", "done"}

\* the tar found is a BSD tar, the method is zstd, the platform is Windows
BsdZstdWindows ==
    getTarPath.type = "bsd" /\ method = "zstd" /\ platform = "win32"

\* C15: getCommands returns two commands when the tar found is a BSD tar, the
\* method zstd and the platform Windows, and one command on every other host
\* and method.
C15_CommandCount ==
    CommandsBuilt => Len(commands) = (IF BsdZstdWindows THEN 2 ELSE 1)

\* the two commands of a create on Windows with BSD tar and zstd, both run
C15_Witness ==
    /\ CommandsBuilt /\ BsdZstdWindows /\ commandType = "create"
    /\ pc = "done" /\ Len(commands) = 2 /\ Len(log) = 2

\* C19: with BSD tar, zstd and Windows a create is tar writing cache.tar and
\* then zstd compressing cache.tar into the archive; an extract is zstd
\* decompressing the archive into cache.tar and then tar extracting cache.tar.
\* execCommands runs the commands in this order, and no command after one
\* that failed: it throws.
C19_SplitCommands ==
    (CommandsBuilt /\ BsdZstdWindows)
        => /\ commandType = "create"
                => commands =
                    <<"C:\\Windows\\System32\\tar.exe --posix -cf cache.tar "
                        \o "--exclude cache.tar -P -C D:/a/w "
                        \o "--files-from manifest.txt",
                      "zstd -T0 --force -o cache.tar.zstd cache.tar">>
           /\ commandType = "extract"
                => commands =
                    <<"zstd -d --force -o cache.tar "
                        \o (IF archivePath = "" THEN ""
                            ELSE "D:/t/cache.tar.zstd"),
                      "C:\\Windows\\System32\\tar.exe -xf cache.tar "
                        \o "-P -C D:/a/w">>
           /\ Len(log) <= Len(commands)
           /\ \A i \in 1..Len(log) :
                 /\ log[i].op = "exec" /\ log[i].arg = commands[i]
                 /\ i < Len(log) => log[i].ok
           /\ pc = "done"
                => \/ /\ result = ReturnedUndefined
                      /\ Len(log) = Len(commands) /\ ~Failed("exec")
                   \/ /\ result.kind = "thrown" /\ ~log[Len(log)].ok
           /\ pc = "exec" => (result = Pending /\ ~Failed("exec"))

\* an extract on Windows with BSD tar and zstd: zstd ran, then tar
C19_Witness ==
    /\ CommandsBuilt /\ BsdZstdWindows /\ commandType = "extract"
    /\ archivePath # "" /\ pc = "done" /\ result = ReturnedUndefined
    /\ Len(log) = 2 /\ FirstWord(log[1].arg) = "zstd"
    /\ FirstWord(log[2].arg) = SystemTar

\* the object was uploaded by a saveCache call of this run: the objects the
\* bucket held at the start were created at time 1, every upload later
WrittenBySave(f) == f.timeCreated # <<1>>

\* C21: the content type saveCache gives the object it uploads with method m
\* is decoded by restoreCache to m: an object a saveCache call wrote is never
\* refused for its content type, and a restoreCache call that resolved it
\* goes on with the method of the save, returning undefined only when one of
\* its I/O steps failed.
C21_TagRoundTrip ==
    /\ \A f \in store :
          WrittenBySave(f)
              => /\ ~Degraded(f.contentType)
                 /\ DecodeMethod(f.contentType) \in {<<"gzip">>, <<"zstd">>}
    /\ (op = "saveCache" /\ upload = "ok")
          => \E f \in store :
                /\ f.name = repository \o "/" \o args.key
                /\ WrittenBySave(f)
                /\ DecodeMethod(f.contentType) = <<method>>
    /\ (/\ op = "restoreCache" /\ entry # <<>> /\ WrittenBySave(entry[1])
        /\ pc \notin {"find", "decode"})
          => /\ method \in {"gzip", "zstd"}
             /\ entry[1].contentType = ContentTypePrefix \o method
             /\ result = ReturnedUndefined => RestoreStepFailed

\* a restoreCache call downloaded and unpacked, as zstd, an object that a
\* saveCache call of this run had uploaded
C21_Witness ==
    /\ op = "restoreCache" /\ pc = "done" /\ entry # <<>>
    /\ WrittenBySave(entry[1]) /\ method = "zstd"
    /\ Did("download") /\ Did("exec tar xf") /\ result.kind = "returned"

\* C22: when the first entry of a key's listing is not named exactly
\* {scope}/{key}, findCacheEntry returns the entry earliest in the listing
\* among those of the latest creation time; an entry without creation time
\* counts as created at the epoch, and is returned only when no entry of the
\* listing has a later time.
C22_EarliestOfNewest ==
    (Resolved /\ files[1].name # ListedPrefix)
        => /\ \E k \in 1..Len(files) :
                /\ entry[1] = files[k]
                /\ \A i \in 1..Len(files) :
                      DateOf(files[i].timeCreated) <= DateOf(files[k].timeCreated)
                /\ \A i \in 1..(k - 1) :
                      DateOf(files[i].timeCreated) < DateOf(files[k].timeCreated)
           /\ entry[1].timeCreated = <<>>
                => /\ entry[1] = files[1]
                   /\ \A i \in 1..Len(files) : DateOf(files[i].timeCreated) = 0

\* an entry without creation time listed first, then two entries of the same
\* latest time: the first of the two is returned
C22_Witness ==
    /\ Resolved /\ Len(files) = 3 /\ files[1].name # ListedPrefix
    /\ files[1].timeCreated = <<>>
    /\ files[2].timeCreated = <<MaxTime>> /\ files[3].timeCreated = <<MaxTime>>
    /\ entry[1] = files[2]

====
